---- MODULE Spec2Model ----
(***************************************************************************)
(* Model of the audiobook pipeline: the Chunk Acquirer                     *)
(* (AudiobookScraper.download_file driven by process_audiobook) and the    *)
(* two Segment Packers (AudiobookScraper.combine_audio_files and the       *)
(* stand-alone script combine_existing_files), followed by the publish and *)
(* cleanup steps, and of the stand-alone scripts upload_to_drive.py,       *)
(* prepare_for_upload.py and downloader.py.                                *)
(*                                                                         *)
(* Durations are whole minutes and raw sizes whole megabytes, so the       *)
(* float quotients len(combined)/1000/60 and len(raw_data)/1024/1024 and   *)
(* round(x, 2) are exact on every value the model draws.                   *)
(***************************************************************************)
EXTENDS Integers, Sequences, FiniteSets, TLC

\* ------------------------------------------------------------------ bounds
\* Largest number of chunk URLs a scraped page holds / of audio_NN.mp3 files.
MaxChunks == 3

\* Longest chunk list given to the packers in SpecPack.
MaxPackChunks == 4

\* Number of series indices 0 .. MaxSeries - 1 the remote server is asked for.
MaxSeries == 4

\* ------------------------------------------------------- program constants
max_retries == 3
batch_size == 10
target_duration_minutes == 60
max_size_mb == 150
known_files == 26
max_file_size == 1024        \* combine_mp3_files: 1024 * 1024 * 1024 bytes, in MB

\* Chunk contents the remote source may serve: a file that does not decode,
\* or a decodable MP3 with a duration (minutes) and a raw PCM size (MB).  A
\* decodable MP3 holds at least one frame, so its duration is positive.
DurChoices == {20, 60}
SizeChoices == {50, 150}
Undecodable == [dec |-> FALSE, dur |-> 0, size |-> 0]
Profiles ==
  {Undecodable} \cup
  {[dec |-> TRUE, dur |-> d, size |-> s] : d \in DurChoices, s \in SizeChoices}

VARIABLES
  mode,             \* "pipeline": process_audiobook; "existing": combine_existing_files
  chunk,            \* chunk[n]: content of audio_NN.mp3 (Undecodable until URL n is fetched)
  dry_run,          \* the --dry-run argument of process_audiobook
  pc,               \* position inside process_audiobook
  bi, bj,           \* loop variables i, j of the batch loops (lines 345, 349)
  attempt,          \* loop variable of download_file (line 121)
  tries,            \* outcomes of the fetch attempts of the current download_file call
  lastCall,         \* the last finished download_file call: url, attempts, result
  attempted,        \* URLs download_file has been called for
  temp_files,       \* numbers NN of the audio_NN.mp3 files present in the temp folder
  downloaded_files, \* list handed to the Packer
  failed_downloads, \* self.failed_downloads: the Failure Records
  download_stats,   \* self.download_stats counters
  sc,               \* locals of combine_audio_files
  epc,              \* position inside combine_existing_files
  audio_files,      \* input list of combine_existing_files
  ex,               \* locals of combine_existing_files
  exports,          \* every combined.export call in order, with its outcome ok
  partial_files,    \* numbers NN of audio_NN.mp3 files a failed fetch left incomplete
  drive_service,    \* self.drive_service is set (authenticate_google_drive was run)
  toc,              \* the table of contents file
  storage_calls,    \* every Google Drive API call in order, with its outcome ok
  summary,          \* what generate_summary produced
  prep,             \* locals of prepare_for_upload / of the integrated workflow test
  remote,           \* downloader.py: what the server answers for each series index
  series,           \* locals of download_mp3_series
  parts             \* locals of combine_mp3_files

vars == <<mode, chunk, dry_run, pc, bi, bj, attempt, tries, lastCall, attempted,
          temp_files, downloaded_files, failed_downloads, download_stats,
          sc, epc, audio_files, ex, exports,
          partial_files, drive_service, toc, storage_calls, summary,
          prep, remote, series, parts>>

\* state of prepare_for_upload.py, test_integrated_workflow.py and downloader.py
scriptVars == <<prep, remote, series, parts>>

\* state that only process_audiobook, combine_existing_files and
\* upload_to_drive.main touch
pipelineVars == <<dry_run, pc, bi, bj, attempt, tries, lastCall, attempted,
                  downloaded_files, failed_downloads, download_stats,
                  sc, epc, audio_files, ex, partial_files,
                  drive_service, storage_calls, summary>>

\* state of steps 4-7 of process_audiobook and of upload_to_drive.main
publishVars == <<drive_service, toc, storage_calls, summary>>

\* ----------------------------------------------------------------- helpers
Range(s) == {s[k] : k \in 1..Len(s)}

RECURSIVE SumDur(_)
SumDur(s) == IF s = <<>> THEN 0 ELSE chunk[Head(s)].dur + SumDur(Tail(s))

RECURSIVE SumSize(_)
SumSize(s) == IF s = <<>> THEN 0 ELSE chunk[Head(s)].size + SumSize(Tail(s))

RECURSIVE Flatten(_)
Flatten(ss) == IF ss = <<>> THEN <<>> ELSE Head(ss) \o Flatten(Tail(ss))

\* s is a subsequence of t (order preserved, not necessarily contiguous)
RECURSIVE IsSubseq(_, _)
IsSubseq(s, t) ==
  IF s = <<>> THEN TRUE
  ELSE IF t = <<>> THEN FALSE
  ELSE IF Head(s) = Head(t) THEN IsSubseq(Tail(s), Tail(t))
  ELSE IsSubseq(s, Tail(t))

Count(s, x) == Cardinality({k \in 1..Len(s) : s[k] = x})

\* the members of a set of naturals as an increasing sequence
RECURSIVE Sorted(_)
Sorted(S) ==
  IF S = {} THEN <<>>
  ELSE LET m == CHOOSE x \in S : \A y \in S : x <= y
       IN <<m>> \o Sorted(S \ {m})

\* f"audio_{n:02d}.mp3" inside the temp folder, and the identifier
\* f.split('_')[-1].replace('.mp3', '') that the manifest derives from it
audio_path(n) == <<"audio", n>>
original_id(f) == f[2]

\* format(n, "02d"): the decimal digits of n, at least two of them
pad2(n) ==
  IF n < 100 THEN <<n \div 10, n % 10>>
  ELSE <<n \div 100, (n \div 10) % 10, n % 10>>

\* the segment file named after a 0-based index
segment_filename_zero_based(n) == <<"segment", pad2(n - 1)>>

\* f"{output_file}_segment_{current_segment:02d}.mp3"
segment_filename(n) == <<"segment", pad2(n)>>

\* f"{book_title.lower().replace(' ', '_')}_toc.json"
toc_filename == <<"toc", <<>>>>

\* ---------------------------------------------------------------- Acquirer
\* process_audiobook without the "if dry_run: return True" of lines 333-335
after_scrape_ignores_dry_run(n_urls, dry) ==
  IF n_urls = 0 THEN "Failed" ELSE "Acquiring"

\* process_audiobook lines 327-335, after scrape_audio_urls returned n_urls
\* URLs: return False, return True (dry run) or go on to step 2
after_scrape(n_urls, dry) ==
  IF n_urls = 0 THEN "Failed"
  ELSE IF dry THEN "Done"
  ELSE "Acquiring"

\* download_file without the failed_downloads counter increment of line 145
download_stats_after_no_failure_count(stats, success, failure) ==
  [stats EXCEPT !.successful_downloads = IF success THEN @ + 1 ELSE @]

\* download_file lines 133 and 145: the counters after a call that fetched
\* the file (success) or gave up and recorded the failure (failure)
download_stats_after(stats, success, failure) ==
  [stats EXCEPT !.successful_downloads = IF success THEN @ + 1 ELSE @,
                !.failed_downloads = IF failure THEN @ + 1 ELSE @]

\* download_file without the "return True": the loop goes on after a
\* successful fetch
download_file_iter_no_return(att, ok) ==
  IF att >= max_retries
    THEN [done |-> TRUE, result |-> FALSE, record |-> FALSE]
  ELSE IF att = max_retries - 1
    THEN [done |-> TRUE, result |-> ok, record |-> ~ok]
  ELSE [done |-> FALSE, result |-> FALSE, record |-> FALSE]

\* download_file with the Failure Record appended outside the
\* "if attempt == max_retries - 1" test
download_file_iter_record_each(att, ok) ==
  IF att >= max_retries
    THEN [done |-> TRUE, result |-> FALSE, record |-> FALSE]
  ELSE IF ok
    THEN [done |-> TRUE, result |-> TRUE, record |-> FALSE]
  ELSE [done |-> att = max_retries - 1, result |-> FALSE, record |-> TRUE]

\* One iteration of the retry loop of download_file: ok is the outcome of
\* requests.get / raise_for_status / writing the file.
download_file_iter(att, ok) ==
  IF att >= max_retries
    THEN [done |-> TRUE, result |-> FALSE, record |-> FALSE]   \* loop exhausted: returns None
  ELSE IF ok
    THEN [done |-> TRUE, result |-> TRUE, record |-> FALSE]
  ELSE IF att = max_retries - 1
    THEN [done |-> TRUE, result |-> FALSE, record |-> TRUE]
  ELSE [done |-> FALSE, result |-> FALSE, record |-> FALSE]

\* the append made regardless of what download_file returned
collect_download_always(files, filepath, result) == Append(files, filepath)

\* if self.download_file(audio_url, filepath): downloaded_files.append(filepath)
collect_download(files, filepath, result) ==
  IF result THEN Append(files, filepath) ELSE files

\* The file an attempt leaves behind (lines 124-129): open(filename, 'wb')
\* comes after raise_for_status, so an attempt that fails while streaming
\* (opened) leaves an incomplete audio_NN.mp3; a successful attempt rewrites it.
partial_after_attempt(partial, u, att, ok, opened) ==
  IF att >= max_retries THEN partial
  ELSE IF ok THEN partial \ {u}
  ELSE IF opened THEN partial \cup {u}
  ELSE partial

\* advance of the nested loops "for i in range(0, len, batch_size)" /
\* "for j, audio_url in enumerate(batch_urls)"
next_index(i, j, n) ==
  IF j + 1 < batch_size /\ i + j + 1 < n THEN <<i, j + 1>> ELSE <<i + batch_size, 0>>

\* ------------------------------------------------------------------ Packer
\* len(combined) / 1000 / 60 and len(combined.raw_data) / 1024 / 1024
duration_of(combined) == SumDur([k \in 1..Len(combined) |-> combined[k][2]])
raw_size_of(combined) == SumSize([k \in 1..Len(combined) |-> combined[k][2]])

\* os.path.getsize of the exported file in hundredths of a MB: the encoder
\* writes 128 kbit/s, i.e. 0.9375 MB per minute
exported_size(duration_minutes) == (duration_minutes * 9375) \div 100

\* should_split with ">" for ">=" in the two threshold tests
should_split_strict(duration_minutes, size_mb, i, n) ==
  \/ duration_minutes > target_duration_minutes
  \/ size_mb > max_size_mb
  \/ i = n - 1

\* should_split with the duration left in seconds (the "/ 60" forgotten)
should_split_seconds(duration_minutes, size_mb, i, n) ==
  \/ duration_minutes * 60 >= target_duration_minutes
  \/ size_mb >= max_size_mb
  \/ i = n - 1

\* should_split of both packers
should_split(duration_minutes, size_mb, i, n) ==
  \/ duration_minutes >= target_duration_minutes
  \/ size_mb >= max_size_mb
  \/ i = n - 1

\* max(0, i - len(combined)/len(audio)): the quotient is a float, so the
\* result is the int 0 when i - quotient <= 0 and a float otherwise, and a
\* float slice index raises TypeError.  len(audio) > 0 for a decoded MP3.
slice_start(i, combined_len, audio_len) ==
  IF i * audio_len <= combined_len
    THEN [is_int |-> TRUE, index |-> 0]
    ELSE [is_int |-> FALSE, index |-> 0]

\* the slice input_files[start:i] for input_files[start:i+1]
original_files_of_short(input_files, start, i) ==
  [k \in 1..(i - start) |-> original_id(input_files[start + k])]

\* [f.split('_')[-1].replace('.mp3', '') for f in input_files[start:i+1]]
original_files_of(input_files, start, i) ==
  [k \in 1..(i + 1 - start) |-> original_id(input_files[start + k])]

processing_error(file) == [url |-> 0, filename |-> file, error |-> "processing"]

\* One iteration of the for loop of combine_audio_files (lines 168-220) on
\* locals st; export_ok is the outcome of combined.export.  Yields the new
\* locals, the Failure Record list and the export calls.
combine_audio_files_iter(st, input_files, failed, exps, export_ok) ==
  LET file == input_files[st.i + 1]
      audio == chunk[file[2]]
      comb == Append(st.combined, file)
      duration_minutes == duration_of(comb)
      size_mb == raw_size_of(comb)
      call == [file |-> segment_filename(st.current_segment), chunks |-> comb,
               dur |-> duration_minutes, size |-> size_mb, at |-> st.i,
               ok |-> export_ok]
      start == slice_start(st.i, duration_minutes, audio.dur)
  IN IF ~audio.dec
       THEN [st |-> [st EXCEPT !.i = @ + 1],
             failed |-> Append(failed, processing_error(file)),
             exps |-> exps]
     ELSE IF ~should_split(duration_minutes, size_mb, st.i, Len(input_files))
       THEN [st |-> [st EXCEPT !.i = @ + 1, !.combined = comb],
             failed |-> failed, exps |-> exps]
     ELSE IF ~export_ok
       THEN [st |-> [st EXCEPT !.i = @ + 1, !.combined = comb],
             failed |-> Append(failed, processing_error(file)),
             exps |-> Append(exps, call)]
     ELSE IF ~start.is_int
       THEN [st |-> [st EXCEPT !.i = @ + 1, !.combined = comb,
                               !.segment_files = Append(@, call.file)],
             failed |-> Append(failed, processing_error(file)),
             exps |-> Append(exps, call)]
     ELSE [st |-> [st EXCEPT
                     !.i = @ + 1,
                     !.combined = <<>>,
                     !.current_segment = @ + 1,
                     !.segment_files = Append(@, call.file),
                     !.segment_info = Append(@,
                        [segment |-> st.current_segment,
                         file |-> call.file,
                         duration_minutes |-> duration_minutes,
                         size_mb |-> exported_size(duration_minutes),
                         original_files |-> original_files_of(input_files, start.index, st.i)])],
           failed |-> failed,
           exps |-> Append(exps, call)]

\* One iteration of the for loop of combine_existing_files (lines 49-98).
combine_existing_iter(st, input_files, exps, export_ok) ==
  LET file == input_files[st.i + 1]
      audio == chunk[file[2]]
      comb == Append(st.combined, file)
      in_segment == Append(st.files_in_current_segment, original_id(file))
      duration_minutes == duration_of(comb)
      size_mb == raw_size_of(comb)
      call == [file |-> segment_filename(st.current_segment), chunks |-> comb,
               dur |-> duration_minutes, size |-> size_mb, at |-> st.i,
               ok |-> export_ok]
  IN IF ~audio.dec
       THEN [st |-> [st EXCEPT !.i = @ + 1], exps |-> exps]
     ELSE IF ~should_split(duration_minutes, size_mb, st.i, Len(input_files))
       THEN [st |-> [st EXCEPT !.i = @ + 1, !.combined = comb,
                               !.files_in_current_segment = in_segment],
             exps |-> exps]
     ELSE IF ~export_ok
       THEN [st |-> [st EXCEPT !.i = @ + 1, !.combined = comb,
                               !.files_in_current_segment = in_segment],
             exps |-> Append(exps, call)]
     ELSE [st |-> [st EXCEPT
                     !.i = @ + 1,
                     !.combined = <<>>,
                     !.files_in_current_segment = <<>>,
                     !.current_segment = @ + 1,
                     !.segment_files = Append(@, call.file),
                     !.segment_info = Append(@,
                        [segment |-> st.current_segment,
                         file |-> call.file,
                         duration_minutes |-> duration_minutes,
                         size_mb |-> exported_size(duration_minutes),
                         original_files |-> in_segment])],
           exps |-> Append(exps, call)]

\* the locals of a call taken over from what earlier calls exported
locals_at_call_resumed(init, exps) ==
  [init EXCEPT !.current_segment = Len(exps) + 1]

\* combined, current_segment, segment_files, segment_info (lines 163-166;
\* combine_existing_files lines 43-47) are assigned afresh at every call,
\* whatever earlier calls exported
locals_at_call(init, exps) == init

\* outcome of the k-th combined.export of a call, oks listing the outcomes
ok_at(oks, k) == IF k <= Len(oks) THEN oks[k] ELSE TRUE

\* A whole call of combine_audio_files: the loop from locals r.st to the end
\* of input_files; base is the number of exports made before the call.
RECURSIVE combine_audio_files_run(_, _, _, _)
combine_audio_files_run(r, input_files, oks, base) ==
  IF r.st.i >= Len(input_files) THEN r
  ELSE combine_audio_files_run(
         combine_audio_files_iter(r.st, input_files, r.failed, r.exps,
                                  ok_at(oks, Len(r.exps) - base + 1)),
         input_files, oks, base)

\* A whole call of combine_existing_files on the list audio_files.
RECURSIVE combine_existing_run(_, _, _, _)
combine_existing_run(r, input_files, oks, base) ==
  IF r.st.i >= Len(input_files) THEN r
  ELSE combine_existing_run(
         combine_existing_iter(r.st, input_files, r.exps,
                               ok_at(oks, Len(r.exps) - base + 1)),
         input_files, oks, base)

\* audio_files of combine_existing_files (lines 26-34): the audio_NN.mp3 that
\* exist, NN = 1..26 in increasing order
existing_audio_files(files) ==
  LET nums == Sorted(files \cap (1..known_files))
  IN [k \in 1..Len(nums) |-> audio_path(nums[k])]

\* create_table_of_contents (lines 224-238); combine_existing_files lines 100-110
create_table_of_contents(segment_info) ==
  [written |-> TRUE, total_segments |-> Len(segment_info), segments |-> segment_info]

\* ------------------------------------------------------- publish and cleanup
\* the exception of a storage call swallowed: the run goes on
after_storage_call_swallowed(ok, next_pc) == next_pc

\* An exception in steps 4-7 reaches "except Exception" of process_audiobook
\* (lines 412-414), which returns False; otherwise the run goes on.
after_storage_call(ok, next_pc) == IF ok THEN next_pc ELSE "Failed"

\* the table of contents uploaded before the segment files
upload_plan_toc_first(segment_files, toc_file) == <<toc_file>> \o segment_files

\* process_audiobook lines 386-393: the segment files in list order, then
\* the table of contents
upload_plan(segment_files, toc_file) == Append(segment_files, toc_file)

\* upload_to_drive.main lines 168-188: the segment files NN = 1..26 that
\* exist, in increasing order, then the table of contents if it exists
script_upload_plan(disk, toc_exists) ==
  LET nums == Sorted({n \in 1..known_files : segment_filename(n) \in disk})
  IN [k \in 1..Len(nums) |-> segment_filename(nums[k])]
     \o (IF toc_exists THEN <<toc_filename>> ELSE <<>>)

\* the Drive API calls of find_or_create_audiobooks_folder: files().list
\* and, when nothing was found, files().create
find_or_create_calls(found, ok) ==
  IF found THEN <<[op |-> "list", file |-> <<"audiobooks", <<>>>>, ok |-> ok]>>
  ELSE <<[op |-> "list", file |-> <<"audiobooks", <<>>>>, ok |-> TRUE],
         [op |-> "create_folder", file |-> <<"audiobooks", <<>>>>, ok |-> ok]>>

Uploads(calls) == SelectSeq(calls, LAMBDA c : c.op = "upload")

\* os.rmdir(temp_dir) (line 401) succeeds only on an empty directory: the
\* loop of line 399 removed the files of downloaded_files only
rmdir_ok(left_in_temp_dir) == left_in_temp_dir = {}

\* generate_summary (lines 416-442): the report file is written only when
\* there are Failure Records
generate_summary(failed) == [generated |-> TRUE, report |-> failed]

\* the segment files on disk
SegmentDisk == {exports[k].file : k \in {j \in 1..Len(exports) : exports[j].ok}}

InitPacker == [i |-> 0, combined |-> <<>>, current_segment |-> 1,
               segment_files |-> <<>>, segment_info |-> <<>>]

InitExisting == [i |-> 0, combined |-> <<>>, current_segment |-> 1,
                 segment_files |-> <<>>, segment_info |-> <<>>,
                 files_in_current_segment |-> <<>>]

NoCall == [url |-> 0, tries |-> <<>>, result |-> FALSE]

NoToc == [written |-> FALSE, total_segments |-> 0, segments |-> <<>>]
NoSummary == [generated |-> FALSE, report |-> <<>>]

\* ------------------------------------------- files used directly as segments
\* prepare_for_upload.py line 62: [f"{i+1:02d}"]
prepare_original_files(i, file) == <<i + 1>>

\* test_integrated_workflow.py line 112: [file.split('_')[-1].replace('.mp3', '')]
workflow_original_files(i, file) == <<original_id(file)>>

\* One iteration of "for i, file in enumerate(audio_files)" of
\* prepare_for_upload (lines 42-66) or of the test (lines 92-116): decode,
\* shutil.copy2 under the segment name (copy_ok), append the manifest entry;
\* an exception skips the entry.
prepare_iter(st, script, copies, copy_ok) ==
  LET file == st.audio_files[st.i + 1]
      audio == chunk[file[2]]
      call == [file |-> segment_filename(st.i + 1), chunks |-> <<file>>,
               ok |-> copy_ok]
      entry == [segment |-> st.i + 1,
                file |-> segment_filename(st.i + 1),
                duration_minutes |-> audio.dur,
                size_mb |-> audio.size,
                original_files |-> IF script = "prepare"
                                   THEN prepare_original_files(st.i, file)
                                   ELSE workflow_original_files(st.i, file)]
  IN IF ~audio.dec
       THEN [st |-> [st EXCEPT !.i = @ + 1], copies |-> copies]
     ELSE IF ~copy_ok
       THEN [st |-> [st EXCEPT !.i = @ + 1], copies |-> Append(copies, call)]
     ELSE [st |-> [st EXCEPT !.i = @ + 1, !.segment_info = Append(@, entry)],
           copies |-> Append(copies, call)]

NoPrep == [pc |-> "Start", audio_files |-> <<>>, i |-> 0, segment_info |-> <<>>]

\* -------------------------------------------------------------- downloader.py
\* What requests.get(url) gives for a series index: an exception, a status
\* other than 200, or 200 with a body that is an MP3 of some raw size (MB)
\* or is not an MP3.
PartSizeChoices == {512, 1024}
Responses ==
  {[status |-> "error", dec |-> FALSE, size |-> 0],
   [status |-> "not_found", dec |-> FALSE, size |-> 0],
   [status |-> "ok", dec |-> FALSE, size |-> 0]}
  \cup {[status |-> "ok", dec |-> TRUE, size |-> z] : z \in PartSizeChoices}

\* download_mp3 (lines 14-20): True iff response.status_code == 200
download_mp3(response) == response.status = "ok"

\* download_mp3_series with the filename appended before the download is tried
download_mp3_series_iter_append_first(st, response) ==
  IF response.status = "error" THEN [st EXCEPT !.pc = "Raised"]
  ELSE IF download_mp3(response)
    THEN [st EXCEPT !.input_files = Append(@, audio_path(st.i)), !.i = @ + 1]
  ELSE [st EXCEPT !.input_files = Append(@, audio_path(st.i)), !.pc = "Returned"]

\* One iteration of the "while True" of download_mp3_series (lines 57-69);
\* an exception of requests.get leaves the function without a return value.
download_mp3_series_iter(st, response) ==
  IF response.status = "error" THEN [st EXCEPT !.pc = "Raised"]
  ELSE IF download_mp3(response)
    THEN [st EXCEPT !.input_files = Append(@, audio_path(st.i)), !.i = @ + 1]
  ELSE [st EXCEPT !.pc = "Returned"]

\* len(combined.raw_data) in MB
RECURSIVE raw_data_size(_)
raw_data_size(files) ==
  IF files = <<>> THEN 0 ELSE remote[Head(files)[2]].size + raw_data_size(Tail(files))

\* the size test of line 34 with ">" for ">="
part_full_strict(size) == size > max_file_size

\* line 34: len(combined.raw_data) >= max_file_size
part_full(size) == size >= max_file_size

\* f"{os.path.splitext(output_file)[0]}_part{part_num}.mp3"
part_filename(n) == <<"part", n>>

\* One iteration of the for loop of combine_mp3_files (lines 28-42); a file
\* that does not decode or an export that fails raises out of the function.
combine_mp3_files_iter(st, input_files, exps, export_ok) ==
  LET file == input_files[st.i + 1]
      comb == Append(st.combined, file)
      size == raw_data_size(comb)
      call == [file |-> part_filename(st.part_num), chunks |-> comb,
               size |-> size, ok |-> export_ok]
  IN IF ~remote[file[2]].dec
       THEN [st |-> [st EXCEPT !.pc = "Raised"], exps |-> exps]
     ELSE IF ~part_full(size)
       THEN [st |-> [st EXCEPT !.pc = "Combining", !.i = @ + 1, !.combined = comb],
             exps |-> exps]
     ELSE IF ~export_ok
       THEN [st |-> [st EXCEPT !.pc = "Raised", !.combined = comb],
             exps |-> Append(exps, call)]
     ELSE [st |-> [st EXCEPT !.pc = "Combining", !.i = @ + 1, !.combined = <<>>,
                             !.part_num = @ + 1,
                             !.combined_files = Append(@, call.file)],
           exps |-> Append(exps, call)]

\* combine_mp3_files lines 44-52: the final part, then the return
combine_mp3_files_final(st, exps, export_ok) ==
  LET size == raw_data_size(st.combined)
      call == [file |-> part_filename(st.part_num), chunks |-> st.combined,
               size |-> size, ok |-> export_ok]
  IN IF size = 0
       THEN [st |-> [st EXCEPT !.pc = "Returned"], exps |-> exps]
     ELSE IF ~export_ok
       THEN [st |-> [st EXCEPT !.pc = "Raised"], exps |-> Append(exps, call)]
     ELSE [st |-> [st EXCEPT !.pc = "Returned",
                             !.combined_files = Append(@, call.file)],
           exps |-> Append(exps, call)]

NoSeries == [pc |-> "Idle", start |-> 0, i |-> 0, input_files |-> <<>>]
NoParts == [pc |-> "NotCalled", i |-> 0, combined |-> <<>>, part_num |-> 1,
            combined_files |-> <<>>]

\* none of the scripts above is running
ScriptsIdle ==
  /\ prep = NoPrep
  /\ remote = <<>>
  /\ series = NoSeries
  /\ parts = NoParts

Init ==
  /\ mode \in {"pipeline", "existing"}
  /\ \E n \in 0..MaxChunks :
       chunk \in [1..n -> IF mode = "pipeline" THEN {Undecodable} ELSE Profiles]
  /\ dry_run \in IF mode = "pipeline" THEN BOOLEAN ELSE {FALSE}
  /\ pc = "Idle"
  /\ bi = 0 /\ bj = 0 /\ attempt = 0 /\ tries = <<>>
  /\ lastCall = NoCall
  /\ attempted = {}
  /\ temp_files \in IF mode = "pipeline" THEN {{}} ELSE SUBSET (1..Len(chunk))
  /\ downloaded_files = <<>>
  /\ failed_downloads = <<>>
  /\ download_stats = [total_files |-> 0, successful_downloads |-> 0, failed_downloads |-> 0]
  /\ sc = InitPacker
  /\ epc = "Start"
  /\ audio_files = <<>>
  /\ ex = InitExisting
  /\ exports = <<>>
  /\ partial_files = {}
  /\ drive_service \in IF mode = "pipeline" /\ ~dry_run THEN BOOLEAN ELSE {mode = "existing"}
  /\ toc = NoToc
  /\ storage_calls = <<>>
  /\ summary = NoSummary
  /\ ScriptsIdle

NumUrls == Len(chunk)

\* process_audiobook, step 1: scrape_audio_urls and the two early returns
Scrape ==
  /\ mode = "pipeline" /\ pc = "Idle"
  /\ pc' = after_scrape(NumUrls, dry_run)
  /\ UNCHANGED scriptVars
  /\ UNCHANGED <<mode, chunk, dry_run, bi, bj, attempt, tries, lastCall, attempted,
                 temp_files, downloaded_files, failed_downloads, download_stats,
                 sc, epc, audio_files, ex, exports, partial_files, publishVars>>

\* process_audiobook, step 2: one fetch attempt of download_file for URL
\* i+j+1; when the call returns, the caller collects the result, advances the
\* batch loops and, after the last URL, moves on to step 3.
DownloadAttempt ==
  /\ mode = "pipeline" /\ pc = "Acquiring"
  /\ \E ok \in BOOLEAN, opened \in BOOLEAN, content \in Profiles :
       LET u == bi + bj + 1
           r == download_file_iter(attempt, ok)
           wrote == ok /\ attempt < max_retries
           nxt == next_index(bi, bj, NumUrls)
           files == collect_download(downloaded_files, audio_path(u), r.result)
       IN /\ attempted' = attempted \cup {u}
          /\ temp_files' = IF wrote THEN temp_files \cup {u} ELSE temp_files
          /\ chunk' = IF wrote THEN [chunk EXCEPT ![u] = content] ELSE chunk
          /\ partial_files' = partial_after_attempt(partial_files, u, attempt, ok, opened)
          /\ failed_downloads' =
               IF r.record
                 THEN Append(failed_downloads,
                             [url |-> u, filename |-> audio_path(u), error |-> "fetch"])
                 ELSE failed_downloads
          /\ IF r.done
               THEN /\ lastCall' = [url |-> u,
                                    tries |-> IF attempt < max_retries
                                              THEN Append(tries, ok) ELSE tries,
                                    result |-> r.result]
                    /\ tries' = <<>>
                    /\ attempt' = 0
                    /\ downloaded_files' = files
                    /\ bi' = nxt[1] /\ bj' = nxt[2]
                    /\ download_stats' =
                         [download_stats_after(download_stats, wrote, r.record) EXCEPT
                            !.total_files = IF nxt[1] >= NumUrls THEN NumUrls ELSE @]
                    /\ pc' = IF nxt[1] < NumUrls THEN "Acquiring"
                             ELSE IF files # <<>> THEN "Packing"
                             ELSE "Failed"
               ELSE /\ tries' = Append(tries, ok)
                    /\ attempt' = attempt + 1
                    /\ UNCHANGED <<lastCall, downloaded_files, bi, bj, download_stats, pc>>
  /\ UNCHANGED scriptVars
  /\ UNCHANGED <<mode, dry_run, sc, epc, audio_files, ex, exports, publishVars>>

\* process_audiobook, step 3: one iteration of the loop of
\* combine_audio_files; after the last one the function returns.
CombineAudioFiles ==
  /\ mode = "pipeline" /\ pc = "Packing"
  /\ \E export_ok \in BOOLEAN :
       LET r == combine_audio_files_iter(sc, downloaded_files, failed_downloads,
                                         exports, export_ok)
       IN /\ sc' = r.st
          /\ failed_downloads' = r.failed
          /\ exports' = r.exps
          /\ pc' = IF r.st.i < Len(downloaded_files) THEN "Packing" ELSE "Packed"
  /\ UNCHANGED scriptVars
  /\ UNCHANGED <<mode, chunk, dry_run, bi, bj, attempt, tries, lastCall, attempted,
                 temp_files, downloaded_files, download_stats, epc, audio_files, ex,
                 partial_files, publishVars>>

\* combine_existing_files, lines 20-40: list the temp folder
ListExisting ==
  /\ mode = "existing" /\ epc = "Start"
  /\ audio_files' = existing_audio_files(temp_files)
  /\ epc' = IF audio_files' = <<>> THEN "Failed" ELSE "Combining"
  /\ UNCHANGED scriptVars
  /\ UNCHANGED <<mode, chunk, dry_run, pc, bi, bj, attempt, tries, lastCall, attempted,
                 temp_files, downloaded_files, failed_downloads, download_stats,
                 sc, ex, exports, partial_files, publishVars>>

\* combine_existing_files, lines 49-98: one iteration of the loop; after the
\* last one the table of contents is written and the script returns True.
CombineExisting ==
  /\ mode = "existing" /\ epc = "Combining"
  /\ \E export_ok \in BOOLEAN :
       LET r == combine_existing_iter(ex, audio_files, exports, export_ok)
       IN /\ ex' = r.st
          /\ exports' = r.exps
          /\ epc' = IF r.st.i < Len(audio_files) THEN "Combining" ELSE "Done"
          /\ toc' = IF r.st.i < Len(audio_files) THEN toc
                    ELSE create_table_of_contents(r.st.segment_info)
  /\ UNCHANGED scriptVars
  /\ UNCHANGED <<mode, chunk, dry_run, pc, bi, bj, attempt, tries, lastCall, attempted,
                 temp_files, downloaded_files, failed_downloads, download_stats,
                 sc, audio_files, partial_files, drive_service, storage_calls, summary>>

\* process_audiobook, step 4: create_table_of_contents
CreateTableOfContents ==
  /\ mode = "pipeline" /\ pc = "Packed"
  /\ toc' = create_table_of_contents(sc.segment_info)
  /\ pc' = "ManifestBuilt"
  /\ UNCHANGED scriptVars
  /\ UNCHANGED <<mode, chunk, dry_run, bi, bj, attempt, tries, lastCall, attempted,
                 temp_files, downloaded_files, failed_downloads, download_stats,
                 sc, epc, audio_files, ex, exports, partial_files,
                 drive_service, storage_calls, summary>>

\* process_audiobook, step 5 (line 380): find_or_create_audiobooks_folder
FindOrCreateAudiobooksFolder ==
  /\ mode = "pipeline" /\ pc = "ManifestBuilt" /\ drive_service
  /\ \E found \in BOOLEAN, ok \in BOOLEAN :
       /\ storage_calls' = storage_calls \o find_or_create_calls(found, ok)
       /\ pc' = after_storage_call(ok, "Publishing")
  /\ UNCHANGED scriptVars
  /\ UNCHANGED <<mode, chunk, dry_run, bi, bj, attempt, tries, lastCall, attempted,
                 temp_files, downloaded_files, failed_downloads, download_stats,
                 sc, epc, audio_files, ex, exports, partial_files,
                 drive_service, toc, summary>>

\* process_audiobook, step 5 (line 383): create_book_folder
CreateBookFolder ==
  /\ mode = "pipeline" /\ pc = "Publishing"
  /\ \E ok \in BOOLEAN :
       /\ storage_calls' = Append(storage_calls,
            [op |-> "create_folder", file |-> <<"book", <<>>>>, ok |-> ok])
       /\ pc' = after_storage_call(ok, "Uploading")
  /\ UNCHANGED scriptVars
  /\ UNCHANGED <<mode, chunk, dry_run, bi, bj, attempt, tries, lastCall, attempted,
                 temp_files, downloaded_files, failed_downloads, download_stats,
                 sc, epc, audio_files, ex, exports, partial_files,
                 drive_service, toc, summary>>

\* process_audiobook, step 5 (lines 386-393): one upload_file_to_drive call
UploadFile ==
  /\ mode = "pipeline" /\ pc = "Uploading"
  /\ \E ok \in BOOLEAN :
       LET plan == upload_plan(sc.segment_files, toc_filename)
           n == Len(Uploads(storage_calls))
       IN /\ storage_calls' = Append(storage_calls,
               [op |-> "upload", file |-> plan[n + 1], ok |-> ok])
          /\ pc' = after_storage_call(ok, IF n + 1 < Len(plan) THEN "Uploading"
                                          ELSE "Cleanup")
  /\ UNCHANGED scriptVars
  /\ UNCHANGED <<mode, chunk, dry_run, bi, bj, attempt, tries, lastCall, attempted,
                 temp_files, downloaded_files, failed_downloads, download_stats,
                 sc, epc, audio_files, ex, exports, partial_files,
                 drive_service, toc, summary>>

\* process_audiobook, steps 6 and 7: remove the downloaded files and the temp
\* folder, generate the summary, return True
CleanupAndSummary ==
  /\ mode = "pipeline"
  /\ pc = "Cleanup" \/ (pc = "ManifestBuilt" /\ ~drive_service)
  /\ temp_files' = temp_files \ {downloaded_files[k][2] : k \in 1..Len(downloaded_files)}
  /\ IF rmdir_ok(temp_files' \cup partial_files)
       THEN /\ summary' = generate_summary(failed_downloads)
            /\ pc' = "Done"
       ELSE /\ summary' = summary
            /\ pc' = "Failed"
  /\ UNCHANGED scriptVars
  /\ UNCHANGED <<mode, chunk, dry_run, bi, bj, attempt, tries, lastCall, attempted,
                 downloaded_files, failed_downloads, download_stats,
                 sc, epc, audio_files, ex, exports, partial_files,
                 drive_service, toc, storage_calls>>

\* upload_to_drive.main lines 157-166, run after combine_existing_files:
\* authenticate, find_or_create_audiobooks_folder, create_book_folder
ScriptFolders ==
  /\ mode = "existing" /\ epc = "Done"
  /\ \E found \in BOOLEAN, ok \in BOOLEAN, book_found \in BOOLEAN, book_ok \in BOOLEAN :
       /\ storage_calls' =
            IF ok THEN find_or_create_calls(found, ok)
                       \o <<[op |-> IF book_found THEN "list" ELSE "create_folder",
                             file |-> <<"book", <<>>>>, ok |-> book_ok]>>
            ELSE find_or_create_calls(found, ok)
       /\ epc' = IF ok /\ book_ok THEN "Uploading" ELSE "UploadFailed"
  /\ UNCHANGED scriptVars
  /\ UNCHANGED <<mode, chunk, dry_run, pc, bi, bj, attempt, tries, lastCall, attempted,
                 temp_files, downloaded_files, failed_downloads, download_stats,
                 sc, audio_files, ex, exports, partial_files,
                 drive_service, toc, summary>>

\* upload_to_drive.main lines 168-193: one upload_file_to_drive call
ScriptUpload ==
  /\ mode = "existing" /\ epc = "Uploading"
  /\ \E ok \in BOOLEAN :
       LET plan == script_upload_plan(SegmentDisk, toc.written)
           n == Len(Uploads(storage_calls))
       IN /\ storage_calls' = Append(storage_calls,
               [op |-> "upload", file |-> plan[n + 1], ok |-> ok])
          /\ epc' = IF ~ok THEN "UploadFailed"
                    ELSE IF n + 1 < Len(plan) THEN "Uploading" ELSE "Uploaded"
  /\ UNCHANGED scriptVars
  /\ UNCHANGED <<mode, chunk, dry_run, pc, bi, bj, attempt, tries, lastCall, attempted,
                 temp_files, downloaded_files, failed_downloads, download_stats,
                 sc, audio_files, ex, exports, partial_files,
                 drive_service, toc, summary>>

Next ==
  \/ Scrape \/ DownloadAttempt \/ CombineAudioFiles
  \/ CreateTableOfContents \/ FindOrCreateAudiobooksFolder \/ CreateBookFolder
  \/ UploadFile \/ CleanupAndSummary
  \/ ListExisting \/ CombineExisting \/ ScriptFolders \/ ScriptUpload

Spec == Init /\ [][Next]_vars

\* main (lines 458-464): exit(1) when process_audiobook returned False
exit_status == IF pc = "Failed" THEN 1 ELSE 0

\* --------------------------------------------------- the stand-alone scripts
\* prepare_for_upload.py ("prepare"), the else branch of
\* test_integrated_workflow.py ("workflow") and downloader.py main without
\* --combine-only ("downloader"), each on its own temp folder or server.
InitScripts ==
  /\ mode \in {"prepare", "workflow", "downloader"}
  /\ \E n \in 0..MaxChunks :
       chunk \in [1..(IF mode = "downloader" THEN 0 ELSE n) -> Profiles]
  /\ temp_files \in SUBSET (1..Len(chunk))
  /\ remote \in IF mode = "downloader" THEN [0..(MaxSeries - 1) -> Responses] ELSE {<<>>}
  /\ series \in IF mode = "downloader"
                THEN {[pc |-> "Downloading", start |-> b, i |-> b, input_files |-> <<>>] :
                        b \in 0..1}
                ELSE {NoSeries}
  /\ prep = NoPrep
  /\ parts = NoParts
  /\ dry_run = FALSE
  /\ pc = "Idle"
  /\ bi = 0 /\ bj = 0 /\ attempt = 0 /\ tries = <<>>
  /\ lastCall = NoCall
  /\ attempted = {}
  /\ downloaded_files = <<>>
  /\ failed_downloads = <<>>
  /\ download_stats = [total_files |-> 0, successful_downloads |-> 0, failed_downloads |-> 0]
  /\ sc = InitPacker
  /\ epc = "Start"
  /\ audio_files = <<>>
  /\ ex = InitExisting
  /\ exports = <<>>
  /\ partial_files = {}
  /\ drive_service = FALSE
  /\ toc = NoToc
  /\ storage_calls = <<>>
  /\ summary = NoSummary

\* prepare_for_upload lines 25-37 (test lines 64-76): list the temp folder
PrepareList ==
  /\ mode \in {"prepare", "workflow"} /\ prep.pc = "Start"
  /\ LET files == existing_audio_files(temp_files)
     IN prep' = [prep EXCEPT !.audio_files = files,
                             !.pc = IF files = <<>> THEN "Failed" ELSE "Preparing"]
  /\ UNCHANGED <<mode, chunk, temp_files, exports, toc, pipelineVars,
                 remote, series, parts>>

\* prepare_for_upload lines 42-84 (test lines 92-130): one iteration of the
\* loop; after the last one the table of contents is written
PrepareForUpload ==
  /\ mode \in {"prepare", "workflow"} /\ prep.pc = "Preparing"
  /\ \E copy_ok \in BOOLEAN :
       LET r == prepare_iter(prep, mode, exports, copy_ok)
           last == r.st.i = Len(prep.audio_files)
       IN /\ prep' = [r.st EXCEPT !.pc = IF last THEN "Done" ELSE "Preparing"]
          /\ exports' = r.copies
          /\ toc' = IF last THEN create_table_of_contents(r.st.segment_info) ELSE toc
  /\ UNCHANGED <<mode, chunk, temp_files, pipelineVars, remote, series, parts>>

\* downloader.main line 94: one iteration of download_mp3_series
DownloadMp3Series ==
  /\ mode = "downloader" /\ series.pc = "Downloading"
  /\ series.i < MaxSeries
  /\ series' = download_mp3_series_iter(series, remote[series.i])
  /\ temp_files' = IF download_mp3(remote[series.i]) /\ series'.pc # "Raised"
                   THEN temp_files \cup {series.i} ELSE temp_files
  /\ UNCHANGED <<mode, chunk, exports, toc, pipelineVars, prep, remote, parts>>

\* downloader.main lines 96-97: one iteration of the loop of combine_mp3_files
CombineMp3Files ==
  /\ mode = "downloader" /\ series.pc = "Returned"
  /\ parts.pc \in {"NotCalled", "Combining"}
  /\ parts.i < Len(series.input_files)
  /\ \E export_ok \in BOOLEAN :
       LET r == combine_mp3_files_iter(parts, series.input_files, exports, export_ok)
       IN parts' = r.st /\ exports' = r.exps
  /\ UNCHANGED <<mode, chunk, temp_files, toc, pipelineVars, prep, remote, series>>

\* combine_mp3_files lines 44-52, after the loop
CombineMp3Final ==
  /\ mode = "downloader" /\ parts.pc = "Combining"
  /\ parts.i = Len(series.input_files)
  /\ \E export_ok \in BOOLEAN :
       LET r == combine_mp3_files_final(parts, exports, export_ok)
       IN parts' = r.st /\ exports' = r.exps
  /\ UNCHANGED <<mode, chunk, temp_files, toc, pipelineVars, prep, remote, series>>

\* downloader.main lines 99-103: os.remove of every input file
RemoveInputs ==
  /\ mode = "downloader" /\ parts.pc = "Returned"
  /\ temp_files' = temp_files \ {series.input_files[k][2] : k \in 1..Len(series.input_files)}
  /\ parts' = [parts EXCEPT !.pc = "CleanedUp"]
  /\ UNCHANGED <<mode, chunk, exports, toc, pipelineVars, prep, remote, series>>

NextScripts ==
  \/ PrepareList \/ PrepareForUpload
  \/ DownloadMp3Series \/ CombineMp3Files \/ CombineMp3Final \/ RemoveInputs

SpecScripts == InitScripts /\ [][NextScripts]_vars

\* download_mp3_series is a plain loop: its next iteration is always taken
SpecScriptsFair == SpecScripts /\ WF_vars(DownloadMp3Series)

\* ------------------------------------------------------- the packers alone
\* The packers on lists of up to MaxPackChunks chunks: combine_audio_files
\* as process_audiobook calls it after every download succeeded at once, and
\* combine_existing_files on any temp folder.
InitPack ==
  /\ mode \in {"pipeline", "existing"}
  /\ \E n \in 1..MaxPackChunks : chunk \in [1..n -> Profiles]
  /\ dry_run = FALSE
  /\ pc = IF mode = "pipeline" THEN "Packing" ELSE "Idle"
  /\ bi = IF mode = "pipeline" THEN batch_size ELSE 0
  /\ bj = 0 /\ attempt = 0 /\ tries = <<>>
  /\ lastCall = IF mode = "pipeline"
                THEN [url |-> Len(chunk), tries |-> <<TRUE>>, result |-> TRUE]
                ELSE NoCall
  /\ attempted = IF mode = "pipeline" THEN 1..Len(chunk) ELSE {}
  /\ temp_files \in IF mode = "pipeline" THEN {1..Len(chunk)} ELSE SUBSET (1..Len(chunk))
  /\ downloaded_files = IF mode = "pipeline"
                        THEN [k \in 1..Len(chunk) |-> audio_path(k)] ELSE <<>>
  /\ failed_downloads = <<>>
  /\ download_stats = IF mode = "pipeline"
                      THEN [total_files |-> Len(chunk),
                            successful_downloads |-> Len(chunk), failed_downloads |-> 0]
                      ELSE [total_files |-> 0, successful_downloads |-> 0,
                            failed_downloads |-> 0]
  /\ sc = InitPacker
  /\ epc = "Start"
  /\ audio_files = <<>>
  /\ ex = InitExisting
  /\ exports = <<>>
  /\ partial_files = {}
  /\ drive_service = (mode = "existing")
  /\ toc = NoToc
  /\ storage_calls = <<>>
  /\ summary = NoSummary
  /\ ScriptsIdle

NextPack == CombineAudioFiles \/ ListExisting \/ CombineExisting

SpecPack == InitPack /\ [][NextPack]_vars

\* ------------------------------------------------- the 26-chunk scenario
\* The packers on audio_01.mp3 .. audio_26.mp3, each decoding to 3 minutes
\* and 6 MB of raw audio.
ScenarioChunk == [dec |-> TRUE, dur |-> 3, size |-> 6]

InitScenario ==
  /\ mode \in {"pipeline", "existing"}
  /\ chunk = [k \in 1..known_files |-> ScenarioChunk]
  /\ dry_run = FALSE
  /\ pc = IF mode = "pipeline" THEN "Packing" ELSE "Idle"
  /\ bi = IF mode = "pipeline" THEN batch_size * 3 ELSE 0
  /\ bj = 0 /\ attempt = 0 /\ tries = <<>>
  /\ lastCall = IF mode = "pipeline"
                THEN [url |-> Len(chunk), tries |-> <<TRUE>>, result |-> TRUE]
                ELSE NoCall
  /\ attempted = IF mode = "pipeline" THEN 1..Len(chunk) ELSE {}
  /\ temp_files = 1..Len(chunk)
  /\ downloaded_files = IF mode = "pipeline"
                        THEN [k \in 1..Len(chunk) |-> audio_path(k)] ELSE <<>>
  /\ failed_downloads = <<>>
  /\ download_stats = IF mode = "pipeline"
                      THEN [total_files |-> Len(chunk),
                            successful_downloads |-> Len(chunk), failed_downloads |-> 0]
                      ELSE [total_files |-> 0, successful_downloads |-> 0,
                            failed_downloads |-> 0]
  /\ sc = InitPacker
  /\ epc = "Start"
  /\ audio_files = <<>>
  /\ ex = InitExisting
  /\ exports = <<>>
  /\ partial_files = {}
  /\ drive_service = (mode = "existing")
  /\ toc = NoToc
  /\ storage_calls = <<>>
  /\ summary = NoSummary
  /\ ScriptsIdle

SpecScenario == InitScenario /\ [][NextPack]_vars

\* ================================================================== claims
PackerInput == IF mode = "pipeline" THEN downloaded_files ELSE audio_files
PackerLocals == IF mode = "pipeline" THEN sc ELSE ex
PackerRunning == IF mode = "pipeline" THEN pc = "Packing" ELSE epc = "Combining"
PackerReturned == PackerInput # <<>> /\ PackerLocals.i = Len(PackerInput)

Decoded(f) == chunk[f[2]].dec
IdsOf(files) == [k \in 1..Len(files) |-> original_id(files[k])]
ManifestIds == Flatten([k \in 1..Len(PackerLocals.segment_info) |->
                           PackerLocals.segment_info[k].original_files])
Produced == SelectSeq(exports, LAMBDA e : e.ok)
AllExportsOk == \A k \in 1..Len(exports) : exports[k].ok
AllDecoded == \A k \in 1..Len(PackerInput) : Decoded(PackerInput[k])

\* C1: after the Packer has finished (every chunk decoded, every export
\* succeeded), each chunk of the input list appears exactly once in the
\* original_files of the manifest Segments.
C1_EachChunkInExactlyOneSegment ==
  (PackerReturned /\ AllDecoded /\ AllExportsOk) =>
    \A k \in 1..Len(PackerInput) :
      Count(ManifestIds, original_id(PackerInput[k])) = 1

\* C2: no input position causes more than one export call, and a one-chunk
\* input whose chunk reaches a threshold (so that the threshold trigger and
\* the last-chunk trigger hold together) yields exactly one Segment file and
\* one manifest entry, holding that one chunk.
C2_SingleClosure ==
  /\ \A a, b \in 1..Len(exports) : exports[a].at = exports[b].at => a = b
  /\ ( /\ PackerReturned
       /\ Len(PackerInput) = 1
       /\ Decoded(PackerInput[1])
       /\ \/ chunk[PackerInput[1][2]].dur >= 60
          \/ chunk[PackerInput[1][2]].size >= 150
       /\ AllExportsOk )
     => /\ Len(exports) = 1
        /\ exports[1].chunks = PackerInput
        /\ Len(PackerLocals.segment_files) = 1
        /\ Len(PackerLocals.segment_info) = 1
        /\ PackerLocals.segment_info[1].original_files = IdsOf(PackerInput)

C2_Witness ==
  /\ mode = "pipeline" /\ pc = "Packed"
  /\ Len(downloaded_files) = 1
  /\ chunk[downloaded_files[1][2]].dur >= 60
  /\ chunk[downloaded_files[1][2]].size >= 150
  /\ Len(exports) = 1 /\ exports[1].ok
  /\ Len(sc.segment_info) = 1

\* C3: when the Packer has finished and no export failed, every chunk that
\* decoded and was accumulated is in an exported Segment file, also when a
\* later chunk (the last one included) failed to decode.
C3_AccumulatedChunksExported ==
  (PackerReturned /\ AllExportsOk) =>
    \A k \in 1..Len(PackerInput) :
      Decoded(PackerInput[k]) =>
        \E e \in 1..Len(exports) : PackerInput[k] \in Range(exports[e].chunks)

\* C4: after a packing run there are as many manifest entries as exported
\* Segment files, and each entry lists exactly the chunks of the audio that
\* was exported under its filename, in the order they were appended.
C4_OneManifestEntryPerSegment ==
  PackerReturned =>
    /\ Len(PackerLocals.segment_info) = Len(PackerLocals.segment_files)
    /\ \A k \in 1..Len(PackerLocals.segment_info) :
         \E e \in 1..Len(exports) :
           /\ exports[e].ok
           /\ exports[e].file = PackerLocals.segment_info[k].file
           /\ IdsOf(exports[e].chunks) = PackerLocals.segment_info[k].original_files

\* C5: in every Packer iteration whose chunk decodes, export is called if and
\* only if the accumulated duration is >= 60 min, or the accumulated raw size
\* is >= 150 MB, or the chunk is the last of the input list; otherwise the
\* Segment stays open with the chunk appended and nothing is exported.
C5_Step ==
  (PackerRunning /\ PackerLocals.i < Len(PackerInput)
     /\ Decoded(PackerInput[PackerLocals.i + 1])) =>
    LET comb == Append(PackerLocals.combined, PackerInput[PackerLocals.i + 1])
        trigger == \/ duration_of(comb) >= 60
                   \/ raw_size_of(comb) >= 150
                   \/ PackerLocals.i = Len(PackerInput) - 1
        after == IF mode = "pipeline" THEN sc' ELSE ex'
    IN /\ trigger => /\ Len(exports') = Len(exports) + 1
                     /\ exports'[Len(exports')].chunks = comb
       /\ ~trigger => /\ exports' = exports
                      /\ after.segment_files = PackerLocals.segment_files
                      /\ after.segment_info = PackerLocals.segment_info
                      /\ after.combined = comb

C5_SplitDecision == [][C5_Step]_vars

C5_Witness ==
  /\ PackerRunning
  /\ Len(exports) = 1 /\ exports[1].ok
  /\ PackerLocals.i = 2
  /\ Len(PackerLocals.combined) = 1
  /\ Len(PackerLocals.segment_info) = 1

\* C6: every exported Segment except possibly the last one had an accumulated
\* duration >= 60 min or an accumulated raw size >= 150 MB when it was closed.
C6_ThresholdAtClose ==
  \A k \in 1..(Len(Produced) - 1) :
    Produced[k].dur >= 60 \/ Produced[k].size >= 150

C6_Witness ==
  /\ PackerReturned
  /\ Len(Produced) >= 2
  /\ Produced[Len(Produced)].dur < 60
  /\ Produced[Len(Produced)].size < 150

\* C7: the original_files lists of the manifest, concatenated in Segment
\* order, form a subsequence of the input chunk list.
C7_InputOrder ==
  PackerReturned => IsSubseq(ManifestIds, IdsOf(PackerInput))

\* C8: a download_file call makes at most max_retries = 3 fetch attempts, no
\* attempt follows a successful one, and the call reports success exactly
\* when its last attempt succeeded.
C8_BoundedRetries ==
  /\ Len(tries) < 3
  /\ \A k \in 1..Len(tries) : ~tries[k]
  /\ lastCall.url # 0 =>
       /\ Len(lastCall.tries) \in 1..3
       /\ \A k \in 1..(Len(lastCall.tries) - 1) : ~lastCall.tries[k]
       /\ lastCall.result = lastCall.tries[Len(lastCall.tries)]

C8_Witness ==
  /\ lastCall.url # 0
  /\ lastCall.tries = <<FALSE, FALSE, TRUE>>
  /\ lastCall.result

\* C9: a URL whose attempts all failed has exactly one Failure Record (and a
\* fetched URL none; temp_files tells the two apart until the cleanup of step 6
\* empties it), and once acquisition is over every discovered URL has
\* been attempted.
FetchRecords(u) ==
  Cardinality({k \in 1..Len(failed_downloads) :
                 failed_downloads[k].url = u /\ failed_downloads[k].error = "fetch"})

BeforeCleanup ==
  pc \in {"Idle", "Acquiring", "Packing", "Packed", "ManifestBuilt",
          "Publishing", "Uploading", "Cleanup"}

C9_FailureRecordedRunContinues ==
  /\ \A u \in attempted :
       (BeforeCleanup /\ ~(pc = "Acquiring" /\ u = bi + bj + 1)) =>
         FetchRecords(u) = IF u \in temp_files THEN 0 ELSE 1
  /\ (mode = "pipeline" /\ ~dry_run /\ pc \notin {"Idle", "Acquiring"}) =>
       attempted = 1..NumUrls

C9_Witness ==
  /\ mode = "pipeline" /\ pc = "Packing"
  /\ 1 \notin temp_files /\ FetchRecords(1) = 1
  /\ 2 \in temp_files
  /\ attempted = 1..NumUrls

\* C10: the list handed to the Packer holds exactly the chunks whose download
\* succeeded (the files in the temp folder, up to the cleanup of step 6), in
\* increasing URL order.
C10_DownloadedInOrder ==
  (mode = "pipeline" /\ BeforeCleanup) =>
    downloaded_files = [k \in 1..Cardinality(temp_files) |->
                          audio_path(Sorted(temp_files)[k])]

C10_Witness ==
  /\ mode = "pipeline" /\ pc = "Packing"
  /\ NumUrls = 3
  /\ temp_files = {1, 3}
  /\ Len(downloaded_files) = 2

\* C11: a run in which a Segment export failed does not return success.
C11_ExportFailureIsFatal ==
  (mode = "pipeline" /\ ~dry_run /\ pc = "Done") => AllExportsOk

\* C12: a downloaded chunk that decodes is removed from the temp folder only
\* once its audio is in a successfully exported Segment file.
C12_ChunksRemovedAfterExport ==
  mode = "pipeline" =>
    \A k \in 1..Len(downloaded_files) :
      (downloaded_files[k][2] \notin temp_files /\ Decoded(downloaded_files[k])) =>
        \E e \in 1..Len(Produced) : downloaded_files[k] \in Range(Produced[e].chunks)

\* C13: no two successful exports of a packing run write the same filename,
\* and the filenames in segment_files are pairwise distinct.
C13_SegmentImmutable ==
  /\ \A a, b \in 1..Len(Produced) : Produced[a].file = Produced[b].file => a = b
  /\ \A a, b \in 1..Len(PackerLocals.segment_files) :
       PackerLocals.segment_files[a] = PackerLocals.segment_files[b] => a = b

\* C14: the manifest entries carry the segment numbers 1, 2, ..., n in
\* order, and the k-th entry's file is named after the two decimal digits
\* of k.
C14_SegmentNumbering ==
  \A k \in 1..Len(PackerLocals.segment_info) :
    /\ PackerLocals.segment_info[k].segment = k
    /\ PackerLocals.segment_info[k].file = <<"segment", <<k \div 10, k % 10>>>>

C14_Witness ==
  /\ mode = "pipeline" /\ pc = "Packed"
  /\ Len(sc.segment_info) = 2
  /\ Len(sc.segment_files) = 3
  /\ AllExportsOk

\* C15: when every download failed, the run reports failure and a table of
\* contents with total_segments = 0 and no segments has been written.
C15_EmptyManifestProduced ==
  (mode = "pipeline" /\ pc = "Failed" /\ NumUrls > 0 /\ downloaded_files = <<>>) =>
    /\ toc.written
    /\ toc.total_segments = 0
    /\ toc.segments = <<>>

\* C16: a process_audiobook call that got past discovery and has returned,
\* with success or with failure, has generated the summary.
C16_SummaryAlwaysGenerated ==
  (mode = "pipeline" /\ ~dry_run /\ NumUrls > 0 /\ pc \in {"Done", "Failed"}) =>
    summary.generated

\* C17: when at least one chunk was materialized (and, here, no storage call
\* failed), process_audiobook returns success and main does not exit with
\* status 1.
NoStorageFailure == \A k \in 1..Len(storage_calls) : storage_calls[k].ok

C17_FailureOnlyWhenNothingMaterialized ==
  (mode = "pipeline" /\ downloaded_files # <<>> /\ NoStorageFailure) =>
    exit_status # 1

\* C18: the run moves through Idle, Acquiring, Packing, ManifestBuilt,
\* (optionally) Publishing, Done in this order; it becomes Failed from Idle
\* only when discovery found nothing, from Acquiring only when no chunk was
\* materialized, and otherwise only by a storage call that failed: never
\* because of an individual chunk or segment failure.
Phase(p) ==
  IF p \in {"Packing", "Packed"} THEN "Packing"
  ELSE IF p \in {"Publishing", "Uploading", "Cleanup"} THEN "Publishing"
  ELSE p

PhaseRank(p) ==
  CASE Phase(p) = "Idle" -> 0
    [] Phase(p) = "Acquiring" -> 1
    [] Phase(p) = "Packing" -> 2
    [] Phase(p) = "ManifestBuilt" -> 3
    [] Phase(p) = "Publishing" -> 4
    [] Phase(p) = "Done" -> 5
    [] OTHER -> 6

C18_Step ==
  (mode = "pipeline" /\ ~dry_run) =>
    /\ pc' # "Failed" =>
         \/ PhaseRank(pc') = PhaseRank(pc)
         \/ PhaseRank(pc') = PhaseRank(pc) + 1
         \/ Phase(pc) = "ManifestBuilt" /\ pc' = "Done"
    /\ (pc' = "Failed" /\ pc # "Failed") =>
         \/ pc = "Idle" /\ NumUrls = 0
         \/ pc = "Acquiring" /\ downloaded_files' = <<>>
         \/ /\ Phase(pc) \in {"ManifestBuilt", "Publishing"}
            /\ Len(storage_calls') > Len(storage_calls)
            /\ ~storage_calls'[Len(storage_calls')].ok

C18_StateMachine == [][C18_Step]_vars

\* C19: process_audiobook makes no storage call before the table of contents
\* is written; the uploads made so far are, in order, the first files of
\* "segment files in list order, then the table of contents", and a publish
\* phase that completed has uploaded all of them, the manifest last.  The
\* same order holds for upload_to_drive.main over the segment files on disk.
UploadedFiles == [k \in 1..Len(Uploads(storage_calls)) |-> Uploads(storage_calls)[k].file]

ExpectedUploads ==
  IF mode = "pipeline" THEN sc.segment_files \o <<toc_filename>>
  ELSE [k \in 1..Len(ex.segment_info) |-> ex.segment_info[k].file] \o <<toc_filename>>

PublishCompleted ==
  IF mode = "pipeline" THEN drive_service /\ pc \in {"Cleanup", "Done"}
  ELSE epc = "Uploaded"

C19_StorageAfterManifest ==
  /\ storage_calls # <<>> =>
       /\ toc.written
       /\ toc.segments = PackerLocals.segment_info
  /\ Len(UploadedFiles) <= Len(ExpectedUploads)
  /\ UploadedFiles = SubSeq(ExpectedUploads, 1, Len(UploadedFiles))
  /\ PublishCompleted =>
       /\ UploadedFiles = ExpectedUploads
       /\ NoStorageFailure

C19_Witness ==
  /\ mode = "pipeline" /\ pc = "Done" /\ drive_service
  /\ Len(sc.segment_files) = 2
  /\ Len(UploadedFiles) = 3
  /\ NoStorageFailure

\* C20: once a storage call has failed, the run has reported failure, the
\* table of contents is the one that was built, and from then on neither it
\* nor the exported Segment files nor the downloaded chunks change.
StorageFailed == ~NoStorageFailure

C20_Inv ==
  StorageFailed =>
    /\ IF mode = "pipeline" THEN pc = "Failed" ELSE epc = "UploadFailed"
    /\ toc = create_table_of_contents(PackerLocals.segment_info)
    /\ mode = "pipeline" =>
         /\ exit_status = 1
         /\ \A k \in 1..Len(downloaded_files) : downloaded_files[k][2] \in temp_files

C20_Frame ==
  /\ storage_calls' # storage_calls => (toc' = toc /\ exports' = exports)
  /\ StorageFailed => UNCHANGED <<toc, exports, sc, ex, temp_files, pc, epc>>

C20_StorageFailureLeavesArtifacts == []C20_Inv /\ [][C20_Frame]_vars

C20_Witness ==
  /\ mode = "pipeline" /\ pc = "Failed"
  /\ Len(Uploads(storage_calls)) = 2
  /\ ~storage_calls[Len(storage_calls)].ok
  /\ Len(Produced) >= 2
  /\ toc.written

\* C21: when a run of process_audiobook that recorded at least one Failure
\* Record has ended, with success or failure, the failure report has been
\* written and holds every recorded failure, in order.
C21_FailuresReported ==
  (mode = "pipeline" /\ pc \in {"Done", "Failed"} /\ failed_downloads # <<>>) =>
    /\ summary.generated
    /\ summary.report = failed_downloads

\* C25: a --dry-run call of process_audiobook downloads no chunk, exports no
\* Segment, writes no table of contents, makes no storage call, and returns
\* success exactly when discovery found at least one URL (failure otherwise).
C25_DryRunOnlyDiscovers ==
  (mode = "pipeline" /\ dry_run) =>
    /\ attempted = {} /\ temp_files = {} /\ partial_files = {}
    /\ downloaded_files = <<>>
    /\ exports = <<>>
    /\ ~toc.written
    /\ storage_calls = <<>>
    /\ pc \in {"Idle", "Done", "Failed"}
    /\ pc = "Done" => NumUrls > 0
    /\ pc = "Failed" => NumUrls = 0

C25_Witness ==
  /\ mode = "pipeline" /\ dry_run
  /\ pc = "Done"
  /\ NumUrls = 2
  /\ exit_status = 0

\* C27: once the Acquirer has processed every URL, successful_downloads +
\* failed_downloads is the number of URLs attempted, successful_downloads is
\* the length of the list handed to the Packer, failed_downloads is the
\* number of Failure Records of the Acquirer; and no counter ever decreases.
AcquirerDone ==
  mode = "pipeline" /\ ~dry_run /\ NumUrls > 0 /\ pc \notin {"Idle", "Acquiring"}

AcquirerRecords == SelectSeq(failed_downloads, LAMBDA r : r.error = "fetch")

C27_Inv ==
  AcquirerDone =>
    /\ download_stats.successful_downloads + download_stats.failed_downloads
         = Cardinality(attempted)
    /\ Cardinality(attempted) = NumUrls
    /\ download_stats.successful_downloads = Len(downloaded_files)
    /\ download_stats.failed_downloads = Len(AcquirerRecords)

C27_Step ==
  /\ download_stats'.successful_downloads >= download_stats.successful_downloads
  /\ download_stats'.failed_downloads >= download_stats.failed_downloads
  /\ download_stats'.total_files >= download_stats.total_files

C27_CountersConsistent == []C27_Inv /\ [][C27_Step]_vars

C27_Witness ==
  /\ AcquirerDone /\ pc = "Packing"
  /\ download_stats.successful_downloads = 2
  /\ download_stats.failed_downloads = 1
  /\ Len(AcquirerRecords) = 1

\* C22: calling the Packer again on the list it has just packed (same chunk
\* contents, same thresholds, the exports succeeding and failing as in the
\* first call) closes Segments at the same positions with the same chunks and
\* filenames and yields the same manifest entries.
ExportOutcomes == [k \in 1..Len(exports) |-> exports[k].ok]

SecondRun ==
  IF mode = "pipeline"
    THEN combine_audio_files_run(
           [st |-> locals_at_call(InitPacker, exports),
            failed |-> failed_downloads, exps |-> exports],
           downloaded_files, ExportOutcomes, Len(exports))
    ELSE combine_existing_run(
           [st |-> locals_at_call(InitExisting, exports), exps |-> exports],
           audio_files, ExportOutcomes, Len(exports))

SecondRunExports == SubSeq(SecondRun.exps, Len(exports) + 1, Len(SecondRun.exps))

ExistingRun ==
  combine_existing_run([st |-> locals_at_call(InitExisting, <<>>), exps |-> <<>>],
                       downloaded_files, ExportOutcomes, 0)

C24_SameCombiningLogic ==
  (mode = "pipeline" /\ PackerReturned) =>
    /\ ExistingRun.exps = exports
    /\ ExistingRun.st.segment_info = sc.segment_info

\* C23: on 26 chunks of 3 minutes / 6 MB, when every export succeeds, the
\* Packer has made exactly two exports and two manifest entries: the first
\* at 60 minutes with chunks 1..20, the second with chunks 21..26 and below
\* both thresholds.
C23_ScenarioTwoSegments ==
  (PackerReturned /\ AllExportsOk) =>
    /\ Len(exports) = 2
    /\ IdsOf(exports[1].chunks) = [k \in 1..20 |-> k]
    /\ exports[1].dur >= target_duration_minutes
    /\ exports[1].size < max_size_mb
    /\ IdsOf(exports[2].chunks) = [k \in 1..6 |-> 20 + k]
    /\ exports[2].dur < target_duration_minutes
    /\ exports[2].size < max_size_mb
    /\ Len(PackerLocals.segment_info) = 2
    /\ PackerLocals.segment_info[1].original_files = [k \in 1..20 |-> k]
    /\ PackerLocals.segment_info[2].original_files = [k \in 1..6 |-> 20 + k]

\* C26: in prepare_for_upload and in the workflow test, every manifest entry
\* lists exactly one original file, and it is the number NN of the
\* audio_NN.mp3 that was copied to the entry's segment file.
C26_DirectSegmentsKeepSourceId ==
  mode \in {"prepare", "workflow"} =>
    \A k \in 1..Len(prep.segment_info) :
      /\ Len(prep.segment_info[k].original_files) = 1
      /\ \E c \in 1..Len(exports) :
           /\ exports[c].ok
           /\ exports[c].file = prep.segment_info[k].file
           /\ IdsOf(exports[c].chunks) = prep.segment_info[k].original_files

\* C28: when combine_mp3_files has returned, the exported parts hold the
\* input files, each once and in input order; a part was closed as soon as
\* its raw size reached max_file_size, only the last part may be smaller and
\* it is not empty; the parts are numbered 1, 2, ..., n.
PartsReturned == mode = "downloader" /\ parts.pc \in {"Returned", "CleanedUp"}

C28_EveryFileInOnePart ==
  PartsReturned =>
    /\ Flatten([k \in 1..Len(exports) |-> exports[k].chunks]) = series.input_files
    /\ parts.combined_files = [k \in 1..Len(exports) |-> <<"part", k>>]
    /\ \A k \in 1..Len(exports) :
         /\ exports[k].ok
         /\ exports[k].file = <<"part", k>>
         /\ exports[k].chunks # <<>>
         /\ exports[k].size = raw_data_size(exports[k].chunks)
         /\ k < Len(exports) => exports[k].size >= max_file_size
         /\ \A j \in 1..(Len(exports[k].chunks) - 1) :
              raw_data_size(SubSeq(exports[k].chunks, 1, j)) < max_file_size

C28_Witness ==
  /\ PartsReturned
  /\ Len(series.input_files) = 3
  /\ Len(exports) = 2
  /\ Len(exports[1].chunks) = 2 /\ exports[1].size = max_file_size
  /\ exports[2].size < max_file_size

\* C29: download_mp3_series leaves its loop exactly at the first index that
\* is not downloaded; when it returns, its result is the files of the
\* indices start .. k-1 in increasing order, all downloaded, and index k was
\* not; and if some index from start on is not downloadable, it terminates.
SeriesTerminated == series.pc \in {"Returned", "Raised"}

SomeIndexFails ==
  mode = "downloader" /\ \E k \in series.start..(MaxSeries - 1) : remote[k].status # "ok"

C29_Inv ==
  mode = "downloader" =>
    /\ series.input_files = [k \in 1..(series.i - series.start) |->
                               audio_path(series.start + k - 1)]
    /\ \A k \in series.start..(series.i - 1) : remote[k].status = "ok"
    /\ SeriesTerminated => (series.i < MaxSeries /\ remote[series.i].status # "ok")
    /\ series.pc = "Returned" => remote[series.i].status = "not_found"

C29_SeriesStopsAtFirstFailure == []C29_Inv /\ (SomeIndexFails ~> SeriesTerminated)

C29_Witness ==
  /\ mode = "downloader" /\ series.pc = "Returned"
  /\ series.start = 1
  /\ series.input_files = <<audio_path(1)>>
  /\ remote[2].status = "not_found"
====
